---- MODULE Spec2Model ----
(***************************************************************************)
(* Client-side lowering of the svelte compiler, phase 3-transform:         *)
(*   - EachBlock      (visitors/EachBlock.js, the iteration construct)     *)
(*   - CallExpression (visitors/CallExpression.js, rune calls)             *)
(* The lowering is a synchronous visitor.  EachBlock runs in three parts:  *)
(* everything up to the visit of the body, the callbacks (binding          *)
(* strategies) that the generic visitor invokes while it walks the body,   *)
(* and everything after the visit of the body.                             *)
(***************************************************************************)
EXTENDS Integers, Sequences, FiniteSets, TLC

VARIABLES
    node,                \* the AST.EachBlock being lowered (input)
    context,             \* the ComponentContext: state.analysis.runes, dev, scopes, path, transform
    pc,                  \* position inside EachBlock: "start", "body", "done" ("idle": no each block)
    flags,               \* the bitset, as the set of the EACH_* bits that are set
    store_to_invalidate, \* '' or the name of the store
    collection_id,       \* "" (null) or the name of the $$array identifier
    uses_index,
    key_uses_index,
    sequence,            \* Expression[] appended after an assignment / mutation
    declarations,        \* Statement[] prepended to the renderer body
    child_transform,     \* child_state.transform
    key_transform,       \* key_state.transform
    visited,             \* for each visited part, the scope level of the state handed to the visitor
    out,                 \* what the last strategy callback returned
    key_function,
    render_args,
    args,                \* arguments of $.each
    init,                \* statements pushed onto context.state.init
    call,                \* the CallExpression node being lowered (input)
    result               \* what CallExpression returned

vars == <<node, context, pc, flags, store_to_invalidate, collection_id, uses_index,
          key_uses_index, sequence, declarations, child_transform, key_transform,
          visited, out, key_function, render_args, args, init, call, result>>

each_vars == <<node, context, pc, flags, store_to_invalidate, collection_id, uses_index,
               key_uses_index, sequence, declarations, child_transform, key_transform,
               visited, out, key_function, render_args, args, init>>

call_vars == <<call, result>>

(***************************************************************************)
(* Bounds of the model.                                                    *)
(***************************************************************************)
MaxPaths == 2      \* leaf bindings of a destructuring pattern
MaxInserts == 1    \* intermediate declarations of a destructuring pattern
MaxBody == 2       \* children of the body fragment
MaxParents == 1    \* nodes on the path above the each block
MaxArgs == 2       \* arguments of a call

(***************************************************************************)
(* Output AST (the '#compiler/builders' shapes used by the two visitors).  *)
(* Every expression is a record of the same four fields.                   *)
(***************************************************************************)
Expr(t, n, a, bd) == [type |-> t, name |-> n, args |-> a, body |-> bd]

Undefined == Expr("undefined", "", <<>>, <<>>)

id(name) == Expr("Identifier", name, <<>>, <<>>)

literal(value) == Expr("Literal", value, <<>>, <<>>)

true == Expr("Literal", "true", <<>>, <<>>)

\* b.call: trailing missing (falsy) arguments are dropped
RECURSIVE DropTrailing(_)
DropTrailing(a) ==
    IF a = <<>> THEN a
    ELSE IF a[Len(a)] = Undefined THEN DropTrailing(SubSeq(a, 1, Len(a) - 1))
    ELSE a

call_(callee, a) == Expr("CallExpression", callee, DropTrailing(a), <<>>)

member(object, property) == Expr("MemberExpression", "", <<object, property>>, <<>>)

assignment(left, right) == Expr("AssignmentExpression", "=", <<left, right>>, <<>>)

sequence_(expressions) == Expr("SequenceExpression", "", expressions, <<>>)

arrow(params, body) == Expr("ArrowFunctionExpression", "", params, <<body>>)

thunk(expression) == arrow(<<>>, expression)

spread(argument) == Expr("SpreadElement", "", <<argument>>, <<>>)

\* shared/declarations.js get_value: the reactive-read form of a node
get_value(n) == call_("$.get", <<n>>)

\* b.call applied to an identifier node (used as a read strategy): `name()`
call_node(n) == call_(n.name, <<>>)

Range(s) == {s[i] : i \in DOMAIN s}

SetAdd(s, x) == IF x \in Range(s) THEN s ELSE Append(s, x)

RECURSIVE AddAll(_, _)
AddAll(s, xs) == IF xs = <<>> THEN s ELSE AddAll(SetAdd(s, Head(xs)), Tail(xs))

Install(f, n, v) == [x \in DOMAIN f \cup {n} |-> IF x = n THEN v ELSE f[x]]

Delete(f, n) == [x \in DOMAIN f \ {n} |-> f[x]]

RECURSIVE SeqsUpTo(_, _)
SeqsUpTo(S, n) ==
    IF n = 0 THEN {<<>>}
    ELSE LET shorter == SeqsUpTo(S, n - 1)
         IN  shorter \cup {Append(s, x) : s \in shorter, x \in S}

(***************************************************************************)
(* Scopes and bindings.                                                    *)
(***************************************************************************)
Binding(n, k, r, d) == [name |-> n, kind |-> k, reassigned |-> r, function_depth |-> d]

NullBinding == Binding("", "null", FALSE, 0)

\* scope.get(name): the nearest declaration of the name, walking up the parents.
\* scopes[1] is context.state.scope, scopes[2] its parent, and so on to the root.
RECURSIVE ScopeGet(_, _, _)
ScopeGet(scopes, level, name) ==
    IF level > Len(scopes) THEN NullBinding
    ELSE IF \E bnd \in scopes[level] : bnd.name = name
         THEN CHOOSE bnd \in scopes[level] : bnd.name = name
         ELSE ScopeGet(scopes, level + 1, name)

\* context.state.scope.parent?.get(name)
ParentGet(scopes, name) == ScopeGet(scopes, 2, name)

\* the names of context.state.scope.declarations
Declared(scope) == {bnd.name : bnd \in scope}

(***************************************************************************)
(* The inputs: the each block, its metadata and the component context.     *)
(***************************************************************************)
NoKey == [type |-> "none", name |-> "", reads |-> {}]

NoContext == [type |-> "none", name |-> "", paths |-> <<>>, inserts |-> 0]

LeafNames == <<"a", "b", "c", "d">>

InsertNames == <<"$$array_1", "$$array_2", "$$array_3">>

\* the result of extract_paths(node.context, unwrapped): the leaf paths, in
\* pattern order, and the number of intermediate declarations (inserts)
Patterns ==
    {[type |-> "ObjectPattern", name |-> "",
      paths |-> [i \in 1..Len(d) |-> [name |-> LeafNames[i], has_default_value |-> d[i]]],
      inserts |-> k] : d \in SeqsUpTo(BOOLEAN, MaxPaths), k \in 0..MaxInserts}

IdentifierContext(n) == [type |-> "Identifier", name |-> n, paths |-> <<>>, inserts |-> 0]

\* the names the item pattern declares
ContextNames(c) ==
    IF c.type = "Identifier" THEN {c.name} ELSE {c.paths[i].name : i \in DOMAIN c.paths}

IndexNames(i) == IF i = "" THEN {} ELSE {i}

\* key expressions over the names of the each scope; reads are the identifiers of
\* the each scope that the expression references
Keys(c, i) ==
    {NoKey}
    \cup {[type |-> "Identifier", name |-> n, reads |-> {n}] : n \in ContextNames(c) \cup IndexNames(i)}
    \cup {[type |-> "CallExpression", name |-> "", reads |-> r] : r \in SUBSET (ContextNames(c) \cup IndexNames(i))}

ItemsBinding == Binding("items", "state", FALSE, 0)

StoreBinding == Binding("$store", "store_sub", FALSE, 0)

\* a binding declared inside the collection expression itself, `xs.map((x) => x)`
DeepBinding == Binding("x", "normal", FALSE, 1)

RootScope == {ItemsBinding, StoreBinding}

\* collection expressions: type, object(expression) and the dependencies of
\* node.metadata.expression
Collections ==
    {[type |-> "ArrayExpression", object |-> "", dependencies |-> {}],
     [type |-> "Identifier", object |-> "items", dependencies |-> {ItemsBinding}],
     [type |-> "Identifier", object |-> "$store", dependencies |-> {StoreBinding}],
     [type |-> "MemberExpression", object |-> "$store", dependencies |-> {StoreBinding, ItemsBinding}],
     [type |-> "CallExpression", object |-> "", dependencies |-> {StoreBinding}],
     [type |-> "CallExpression", object |-> "", dependencies |-> {DeepBinding}]}

Child(t, a) == [type |-> t, attributes |-> a]

ChildKinds ==
    {Child(t, a) : t \in {"RegularElement", "SvelteElement"},
                   a \in SUBSET {"AnimateDirective", "TransitionDirective"}}
    \cup {Child("Text", {}), Child("Component", {})}

\* whitespace text is no structural child of the body
Structural(nodes) == SelectSeq(nodes, LAMBDA ch : ch.type # "Text")

\* `animate:` can only appear on elements that are the sole child of a keyed each block
ValidBody(nodes, key) ==
    \A i \in DOMAIN nodes :
        "AnimateDirective" \in nodes[i].attributes
            => key # NoKey /\ Len(Structural(nodes)) = 1

Bodies == SeqsUpTo(ChildKinds, MaxBody)

TransitiveDepSets == {<<>>, <<"t1">>, <<"t2">>, <<"t1", "t2">>}

PathNodes ==
    {[type |-> "IfBlock", transitive_deps |-> <<>>]}
    \cup {[type |-> "EachBlock", transitive_deps |-> td] : td \in TransitiveDepSets \ {<<"t1", "t2">>}}

Paths == SeqsUpTo(PathNodes, MaxParents)

\* declarations of the scope that encloses the each block
ParentScopes ==
    {{}, {Binding("item", "each", FALSE, 0)}, {Binding("i", "template", FALSE, 0)}}

OwnScope(c, i, re) ==
    {Binding(n, "each", re, 1) : n \in ContextNames(c)}
    \cup {Binding(n, "template", FALSE, 1) : n \in IndexNames(i)}

MkNode(e, c, i, k, kd, bd, fb, ctl, grp, td, aw) ==
    [expression |-> [type |-> e.type, object |-> e.object],
     context |-> c, index |-> i, key |-> k,
     body |-> [nodes |-> bd], fallback |-> fb,
     metadata |-> [keyed |-> kd, is_controlled |-> ctl, contains_group_binding |-> grp,
                   index |-> "$$index", transitive_deps |-> td,
                   expression |-> [dependencies |-> e.dependencies, has_await |-> aw]]]

MkContext(r, d, c, i, re, ps, pa) ==
    [runes |-> r, dev |-> d, function_depth |-> 1,
     scopes |-> <<OwnScope(c, i, re), ps, RootScope>>,
     path |-> pa,
     transform |-> [n \in {bnd.name : bnd \in {x \in ps : x.kind = "each"}} |-> "outer"]]

(***************************************************************************)
(* EachBlock, lines 45-101: the flags.                                     *)
(***************************************************************************)
IndexReactive(n) == n.metadata.keyed /\ n.index # ""

key_is_item(n) ==
    /\ n.key.type = "Identifier"
    /\ n.context.type = "Identifier"
    /\ n.context.name = n.key.name

uses_store(n) == \E bnd \in n.metadata.expression.dependencies : bnd.kind = "store_sub"

\* mutant: the function-depth test of line 72 is left out
ItemReactiveNoDepth(n, c) ==
    \E bnd \in n.metadata.expression.dependencies :
        ~c.runes \/ ~key_is_item(n) \/ uses_store(n)

ItemReactive(n, c) ==
    \E bnd \in n.metadata.expression.dependencies :
        /\ ~(bnd.function_depth >= c.function_depth)
        /\ (~c.runes \/ ~key_is_item(n) \/ uses_store(n))

ItemImmutable(n, c) == c.runes /\ ~uses_store(n)

\* mutant: any directive on an element counts as animate:
IsAnimatedAnyDirective(n) ==
    /\ n.key # NoKey
    /\ \E i \in DOMAIN n.body.nodes :
          /\ n.body.nodes[i].type \in {"RegularElement", "SvelteElement"}
          /\ n.body.nodes[i].attributes # {}

IsAnimated(n) ==
    /\ n.key # NoKey
    /\ \E i \in DOMAIN n.body.nodes :
          /\ n.body.nodes[i].type \in {"RegularElement", "SvelteElement"}
          /\ "AnimateDirective" \in n.body.nodes[i].attributes

Flags(n, c) ==
    (IF IndexReactive(n) THEN {"EACH_INDEX_REACTIVE"} ELSE {})
    \cup (IF ItemReactive(n, c) THEN {"EACH_ITEM_REACTIVE"} ELSE {})
    \cup (IF ItemImmutable(n, c) THEN {"EACH_ITEM_IMMUTABLE"} ELSE {})
    \cup (IF IsAnimated(n) THEN {"EACH_IS_ANIMATED"} ELSE {})
    \cup (IF n.metadata.is_controlled THEN {"EACH_IS_CONTROLLED"} ELSE {})

(***************************************************************************)
(* EachBlock, lines 103-213: store to invalidate, shadow capture, the      *)
(* invalidation sequence.                                                  *)
(***************************************************************************)
\* the lowered collection expression (build_expression under the parent scope)
Collection(n) == Expr(n.expression.type, n.expression.object, <<>>, <<>>)

StoreToInvalidate(n, c) ==
    IF /\ n.expression.type \in {"Identifier", "MemberExpression"}
       /\ n.expression.object # ""
       /\ ScopeGet(c.scopes, 1, n.expression.object).kind = "store_sub"
    THEN n.expression.object
    ELSE ""

\* mutant: only the declarations of the immediate parent are looked at
CollectionIdParentOnly(c) ==
    IF \E name \in Declared(c.scopes[1]) : name \in Declared(c.scopes[2])
    THEN "$$array"
    ELSE ""

CollectionId(c) ==
    IF \E name \in Declared(c.scopes[1]) : ParentGet(c.scopes, name) # NullBinding
    THEN "$$array"
    ELSE ""

Index(n) ==
    IF n.metadata.contains_group_binding \/ n.index = ""
    THEN id(n.metadata.index)
    ELSE id(n.index)

Item(n) == IF n.context.type = "Identifier" THEN id(n.context.name) ELSE id("$$item")

collect_parent_each_blocks(c) == SelectSeq(c.path, LAMBDA p : p.type = "EachBlock")

RECURSIVE AddBlocks(_, _)
AddBlocks(deps, blocks) ==
    IF blocks = <<>> THEN deps
    ELSE AddBlocks(AddAll(deps, Head(blocks).transitive_deps), Tail(blocks))

\* mutant: the enclosing each blocks are not walked
TransitiveDepsNoParents(n, c, cid) ==
    IF cid # "" THEN <<cid>> ELSE AddAll(<<>>, n.metadata.transitive_deps)

\* the Set transitive_deps of lines 178-193, in insertion order
TransitiveDeps(n, c, cid) ==
    AddBlocks(IF cid # "" THEN <<cid>> ELSE AddAll(<<>>, n.metadata.transitive_deps),
              collect_parent_each_blocks(c))

\* the generic visitor on an identifier: the read strategy of the transform
\* table when the name has one, the node itself otherwise
VisitIdentifier(name, transform) ==
    IF name \in DOMAIN transform
    THEN CASE transform[name] = "collection" -> call_node(id(name))   \* { read: b.call }
           [] OTHER -> get_value(id(name))                            \* a strategy of an outer block
    ELSE id(name)

InvalidateInnerSignals(deps, transform) ==
    call_("$.invalidate_inner_signals",
          <<thunk(sequence_([i \in DOMAIN deps |-> VisitIdentifier(deps[i], transform)]))>>)

InvalidateStore(store) == call_("$.invalidate_store", <<id("$$stores"), literal(store)>>)

\* child_state.transform at line 201: the outer table, the index and the capture
TransformAtInvalidate(n, c, cid) ==
    LET t1 == IF n.index # "" THEN Install(c.transform, n.index, "index") ELSE c.transform
    IN  IF ~c.runes /\ cid # "" THEN Install(t1, cid, "collection") ELSE t1

\* mutant: the store invalidation is pushed before the inner-signal invalidation
SequenceStoreFirst(n, c, cid, store) ==
    LET deps == TransitiveDeps(n, c, cid)
    IN  (IF store # "" THEN <<InvalidateStore(store)>> ELSE <<>>)
        \o (IF ~c.runes /\ Len(deps) > 0
            THEN <<InvalidateInnerSignals(deps, TransformAtInvalidate(n, c, cid))>>
            ELSE <<>>)

Sequence(n, c, cid, store) ==
    LET deps == TransitiveDeps(n, c, cid)
    IN  (IF ~c.runes /\ Len(deps) > 0
         THEN <<InvalidateInnerSignals(deps, TransformAtInvalidate(n, c, cid))>>
         ELSE <<>>)
        \o (IF store # "" THEN <<InvalidateStore(store)>> ELSE <<>>)

(***************************************************************************)
(* EachBlock, lines 215-293: the strategies and the declarations.          *)
(***************************************************************************)
var(name, value) == Expr("var", name, <<value>>, <<>>)

let(name, value) == Expr("let", name, <<value>>, <<>>)

stmt(expression) == Expr("ExpressionStatement", "", <<expression>>, <<>>)

Unwrapped(n, fl) ==
    IF "EACH_ITEM_REACTIVE" \in fl THEN call_("$.get", <<Item(n)>>) ELSE Item(n)

\* the read strategy of a leaf binding: get_value when derived, b.call otherwise
LeafRead(path, nd) == IF path.has_default_value THEN get_value(nd) ELSE call_node(nd)

InsertDeclaration(k, n, fl) ==
    var(InsertNames[k], call_("$.derived", <<thunk(call_("$.to_array", <<Unwrapped(n, fl)>>))>>))

\* mutant: every leaf is wrapped in a derived
PathDeclarationAlwaysDerived(path, n, fl) ==
    let(path.name,
        call_("$.derived_safe_equal", <<thunk(member(Unwrapped(n, fl), literal(path.name)))>>))

PathDeclaration(path, n, fl) ==
    LET fn == thunk(member(Unwrapped(n, fl), literal(path.name)))
    IN  let(path.name, IF path.has_default_value THEN call_("$.derived_safe_equal", <<fn>>) ELSE fn)

RECURSIVE PathDeclarations(_, _, _, _)
PathDeclarations(paths, n, fl, dev) ==
    IF paths = <<>> THEN <<>>
    ELSE <<PathDeclaration(Head(paths), n, fl)>>
         \o (IF dev THEN <<stmt(LeafRead(Head(paths), id(Head(paths).name)))>> ELSE <<>>)
         \o PathDeclarations(Tail(paths), n, fl, dev)

Declarations(n, c, fl) ==
    IF n.context.type = "ObjectPattern"
    THEN [k \in 1..n.context.inserts |-> InsertDeclaration(k, n, fl)]
         \o PathDeclarations(n.context.paths, n, fl, c.dev)
    ELSE <<>>

RECURSIVE InstallAll(_, _, _)
InstallAll(f, ns, v) ==
    IF ns = {} THEN f
    ELSE LET x == CHOOSE x \in ns : TRUE IN InstallAll(Install(f, x, v), ns \ {x}, v)

RECURSIVE DeleteSet(_, _)
DeleteSet(f, ns) ==
    IF ns = {} THEN f
    ELSE LET x == CHOOSE x \in ns : TRUE IN DeleteSet(Delete(f, x), ns \ {x})

ChildTransform(n, c, cid) ==
    LET t1 == TransformAtInvalidate(n, c, cid)
    IN  IF n.context.type = "Identifier" THEN Install(t1, n.context.name, "item")
        ELSE IF n.context.type = "ObjectPattern"
        THEN InstallAll(InstallAll(t1, {InsertNames[k] : k \in 1..n.context.inserts}, "insert"),
                        ContextNames(n.context), "leaf")
        ELSE t1

KeyTransform(n, c) ==
    LET t1 == IF n.index # "" THEN Install(c.transform, n.index, "index") ELSE c.transform
    IN  IF n.context.type = "none" THEN t1 ELSE DeleteSet(t1, ContextNames(n.context))

\* the scope of each state object: parent_scope_state replaces the scope by
\* context.state.scope.parent, the others spread context.state and keep its scope
ScopeLevel(state) == IF state = "parent_scope_state" THEN 2 ELSE 1

NotVisited == [expression |-> 0, body |-> 0, key |-> 0, fallback |-> 0]

(***************************************************************************)
(* EachBlock, lines 22-293: everything before the visit of the body.       *)
(***************************************************************************)
EachBlockBegin ==
    /\ pc = "start"
    /\ LET fl == Flags(node, context)
           store == StoreToInvalidate(node, context)
           cid == CollectionId(context)
       IN  /\ flags' = fl
           /\ store_to_invalidate' = store
           /\ collection_id' = cid
           /\ sequence' = Sequence(node, context, cid, store)
           /\ declarations' = Declarations(node, context, fl)
           /\ child_transform' = ChildTransform(node, context, cid)
    /\ key_transform' = KeyTransform(node, context)
    /\ uses_index' = node.metadata.contains_group_binding
    /\ key_uses_index' = FALSE
    /\ visited' = [visited EXCEPT !.expression = ScopeLevel("parent_scope_state"),
                                  !.body = ScopeLevel("child_state")]
    /\ pc' = "body"
    /\ UNCHANGED <<node, context, out, key_function, render_args, args, init, call_vars>>

(***************************************************************************)
(* The strategies, called back by the generic visitor while it walks the   *)
(* body under child_state.                                                 *)
(***************************************************************************)
IndexExpression(n, fl) ==
    IF "EACH_INDEX_REACTIVE" \in fl THEN get_value(Index(n)) ELSE Index(n)

\* collection[index], through the capture when there is one
IndexedCollection(n, fl, cid) ==
    member(IF cid # "" THEN call_node(id(cid)) ELSE Collection(n), IndexExpression(n, fl))

\* mutant: the read never goes through get_value
ItemReadNeverReactive(n, c, fl, cid) ==
    IF ScopeGet(c.scopes, 1, n.context.name).reassigned
    THEN IndexedCollection(n, fl, cid)
    ELSE id(n.context.name)

\* lines 219-232
ItemRead(n, c, fl, cid) ==
    IF ScopeGet(c.scopes, 1, n.context.name).reassigned
    THEN IndexedCollection(n, fl, cid)
    ELSE IF "EACH_ITEM_REACTIVE" \in fl THEN get_value(id(n.context.name)) ELSE id(n.context.name)

\* lines 233-243
ItemAssign(n, fl, cid, seq, value) ==
    sequence_(<<assignment(IndexedCollection(n, fl, cid), value)>> \o seq)

\* lines 244-247 and 280-282
Mutate(seq, mutation) == sequence_(<<mutation>> \o seq)

\* lines 276-279: path.update_expression is the leaf's place in the item
LeafAssign(path, n, fl, seq, value) ==
    sequence_(<<assignment(member(Unwrapped(n, fl), literal(path.name)), value)>> \o seq)

Value == id("value")

Mutation(name) == assignment(member(id(name), literal("property")), Value)

\* lines 152-155
ReadIndex ==
    /\ pc = "body"
    /\ node.index # ""
    /\ uses_index' = TRUE
    /\ out' = [op |-> "read", name |-> node.index,
               expression |-> IF "EACH_INDEX_REACTIVE" \in flags
                              THEN get_value(id(node.index)) ELSE id(node.index)]
    /\ UNCHANGED <<node, context, pc, flags, store_to_invalidate, collection_id,
                   key_uses_index, sequence, declarations, child_transform, key_transform,
                   visited, key_function, render_args, args, init, call_vars>>

ReadItem ==
    /\ pc = "body"
    /\ node.context.type = "Identifier"
    /\ out' = [op |-> "read", name |-> node.context.name,
               expression |-> ItemRead(node, context, flags, collection_id)]
    /\ UNCHANGED <<node, context, pc, flags, store_to_invalidate, collection_id, uses_index,
                   key_uses_index, sequence, declarations, child_transform, key_transform,
                   visited, key_function, render_args, args, init, call_vars>>

\* an assignment to the loop variable exists only where the binding is reassigned
AssignItem ==
    /\ pc = "body"
    /\ node.context.type = "Identifier"
    /\ ScopeGet(context.scopes, 1, node.context.name).reassigned
    /\ uses_index' = TRUE
    /\ out' = [op |-> "assign", name |-> node.context.name,
               expression |-> ItemAssign(node, flags, collection_id, sequence, Value)]
    /\ UNCHANGED <<node, context, pc, flags, store_to_invalidate, collection_id,
                   key_uses_index, sequence, declarations, child_transform, key_transform,
                   visited, key_function, render_args, args, init, call_vars>>

MutateItem ==
    /\ pc = "body"
    /\ node.context.type = "Identifier"
    /\ uses_index' = TRUE
    /\ out' = [op |-> "mutate", name |-> node.context.name,
               expression |-> Mutate(sequence, Mutation(node.context.name))]
    /\ UNCHANGED <<node, context, pc, flags, store_to_invalidate, collection_id,
                   key_uses_index, sequence, declarations, child_transform, key_transform,
                   visited, key_function, render_args, args, init, call_vars>>

ReadLeaf ==
    /\ pc = "body"
    /\ \E i \in DOMAIN node.context.paths :
          out' = [op |-> "read", name |-> node.context.paths[i].name,
                  expression |-> LeafRead(node.context.paths[i], id(node.context.paths[i].name))]
    /\ UNCHANGED <<node, context, pc, flags, store_to_invalidate, collection_id, uses_index,
                   key_uses_index, sequence, declarations, child_transform, key_transform,
                   visited, key_function, render_args, args, init, call_vars>>

\* assignments to each-block bindings are rejected in runes mode
AssignLeaf ==
    /\ pc = "body"
    /\ ~context.runes
    /\ \E i \in DOMAIN node.context.paths :
          out' = [op |-> "assign", name |-> node.context.paths[i].name,
                  expression |-> LeafAssign(node.context.paths[i], node, flags, sequence, Value)]
    /\ UNCHANGED <<node, context, pc, flags, store_to_invalidate, collection_id, uses_index,
                   key_uses_index, sequence, declarations, child_transform, key_transform,
                   visited, key_function, render_args, args, init, call_vars>>

MutateLeaf ==
    /\ pc = "body"
    /\ \E i \in DOMAIN node.context.paths :
          out' = [op |-> "mutate", name |-> node.context.paths[i].name,
                  expression |-> Mutate(sequence, Mutation(node.context.paths[i].name))]
    /\ UNCHANGED <<node, context, pc, flags, store_to_invalidate, collection_id, uses_index,
                   key_uses_index, sequence, declarations, child_transform, key_transform,
                   visited, key_function, render_args, args, init, call_vars>>

(***************************************************************************)
(* EachBlock, lines 295-357: everything after the visit of the body.       *)
(***************************************************************************)
\* mutant: the key function shares the body's uses_index flag
KeyUsesIndexShared(n, kt) ==
    /\ n.index # ""
    /\ (uses_index \/ n.index \in n.key.reads)

\* key_state.transform[node.index].read is called for each read of the index
\* that the visit of the key expression meets
KeyUsesIndex(n, kt) ==
    /\ n.index # ""
    /\ n.index \in n.key.reads
    /\ n.index \in DOMAIN kt
    /\ kt[n.index] = "index"

Pattern(n) ==
    IF n.context.type = "Identifier" THEN id(n.context.name)
    ELSE Expr(n.context.type, "", [i \in DOMAIN n.context.paths |-> id(n.context.paths[i].name)], <<>>)

\* lines 298-307
KeyFunction(n, kt) ==
    IF n.metadata.keyed
    THEN arrow(IF KeyUsesIndex(n, kt) THEN <<Pattern(n), Index(n)>> ELSE <<Pattern(n)>>,
               Expr(n.key.type, n.key.name, <<>>, <<>>))
    ELSE id("$.index")

\* lines 309-313
GroupIndexDeclaration(n) ==
    IF n.index # "" /\ n.metadata.contains_group_binding
    THEN <<let(n.index, Index(n))>>
    ELSE <<>>

\* lines 315-317
GetCollection(n) ==
    Expr("ArrowFunctionExpression", IF n.metadata.expression.has_await THEN "async" ELSE "",
         <<>>, <<Collection(n)>>)

Thunk(n) ==
    IF n.metadata.expression.has_await
    THEN thunk(call_("$.get", <<id("$$collection")>>))
    ELSE GetCollection(n)

\* lines 319-321
RenderArgs(n, ui, cid) ==
    <<id("$$anchor"), Item(n)>>
    \o (IF ui \/ cid # "" THEN <<Index(n)>> ELSE <<>>)
    \o (IF cid # "" THEN <<id(cid)>> ELSE <<>>)

\* mutant: the fallback is visited with the state of the collection expression
FallbackStateParent == "parent_scope_state"

\* the state that context.visit(node.fallback) hands to the visitor (line 334)
FallbackState == "context.state"

Fallback == arrow(<<id("$$anchor")>>, Expr("BlockStatement", "fallback", <<>>, <<>>))

\* lines 324-336
Args(n, fl, kf, ra, decls) ==
    <<id("node"), literal("flags"), Thunk(n), kf, arrow(ra, Expr("BlockStatement", "body", decls, <<>>))>>
    \o (IF n.fallback THEN <<Fallback>> ELSE <<>>)

\* lines 338-342
Statements(n, c, a, kf) ==
    (IF c.dev /\ n.metadata.keyed
     THEN <<stmt(call_("$.validate_each_keys", <<Thunk(n), kf>>))>>
     ELSE <<>>)
    \o <<stmt(call_("$.each", a))>>

\* lines 344-357
InitStatements(n, stmts) ==
    IF n.metadata.expression.has_await
    THEN <<stmt(call_("$.async",
                      <<id("node"), Expr("ArrayExpression", "", <<GetCollection(n)>>, <<>>),
                        arrow(<<id("node"), id("$$collection")>>,
                              Expr("BlockStatement", "", stmts, <<>>))>>))>>
    ELSE stmts

EachBlockEnd ==
    /\ pc = "body"
    /\ LET kui == node.metadata.keyed /\ KeyUsesIndex(node, key_transform)
           kf == KeyFunction(node, key_transform)
           decls == declarations \o GroupIndexDeclaration(node)
           ra == RenderArgs(node, uses_index, collection_id)
           a == Args(node, flags, kf, ra, decls)
       IN  /\ key_uses_index' = kui
           /\ key_function' = kf
           /\ declarations' = decls
           /\ render_args' = ra
           /\ args' = a
           /\ init' = init \o InitStatements(node, Statements(node, context, a, kf))
    /\ visited' = [visited EXCEPT
                     !.key = IF node.metadata.keyed THEN ScopeLevel("key_state") ELSE 0,
                     !.fallback = IF node.fallback THEN ScopeLevel(FallbackState) ELSE 0]
    /\ pc' = "done"
    /\ UNCHANGED <<node, context, flags, store_to_invalidate, collection_id, uses_index,
                   sequence, child_transform, key_transform, out, call_vars>>

(***************************************************************************)
(* The each blocks that are lowered.                                       *)
(***************************************************************************)
\* reassignments are forbidden in runes mode
Reassignable(RE, r, c) == {re \in RE : re => (c.type = "Identifier" /\ ~r)}

\* metadata.keyed: can only be keyed when a context is provided; a block whose
\* key is present is keyed, except that a key that is just the index may be
\* treated as a plain indexed block
Keyable(k, c, i) ==
    {kd \in BOOLEAN :
        /\ kd => (k # NoKey /\ c # NoContext)
        /\ ~kd => (k = NoKey \/ (k.type = "Identifier" /\ k.name = i))}

\* a key expression is only permitted when an item pattern exists
KeysOf(c, i, keys) ==
    {k \in Keys(c, i) :
        /\ keys = "all" \/ k = NoKey \/ (keys = "identifier" /\ k.type = "Identifier")
        /\ c = NoContext => k = NoKey}

Inputs(R, D, E, C, RE, I, keys, BD, FB, CTL, GRP, TD, AW, PS, PA) ==
    UNION {UNION {
        {[node |-> MkNode(e, c, i, k, kd, bd, fb, ctl, grp, td, aw),
          context |-> MkContext(r, d, c, i, re, ps, pa)] :
            d \in D, e \in E, re \in Reassignable(RE, r, c), kd \in Keyable(k, c, i),
            bd \in {x \in BD : ValidBody(x, k)},
            fb \in FB, ctl \in CTL, grp \in GRP, td \in TD, aw \in AW, ps \in PS, pa \in PA}
        : k \in KeysOf(c, i, keys)} : r \in R, c \in C, i \in I}

Plain == <<Child("RegularElement", {})>>

ItemContexts == {IdentifierContext("item"), IdentifierContext("items")}

NamedCollections == {e \in Collections : e.type = "Identifier"}

\* flags: mode, collection, item pattern, index, key
FlagInputs ==
    Inputs(BOOLEAN, {FALSE}, Collections,
           {NoContext, IdentifierContext("item")} \cup {p \in Patterns : Len(p.paths) = 1 /\ p.inserts = 0},
           BOOLEAN, {"", "i"}, "all",
           {Plain}, {FALSE}, BOOLEAN, {FALSE}, {<<>>}, {FALSE}, {{}}, {<<>>})

\* the body fragment
BodyInputs ==
    Inputs({FALSE}, {FALSE}, {e \in NamedCollections : e.object = "items"},
           {IdentifierContext("item")},
           {FALSE}, {"i"}, "identifier",
           Bodies, {FALSE}, {FALSE}, {FALSE}, {<<>>}, {FALSE}, {{}}, {<<>>})

\* write-back: shadowing, stores, transitive dependencies, enclosing each blocks
WriteInputs ==
    Inputs(BOOLEAN, {FALSE}, {e \in Collections : e.type # "CallExpression"},
           ItemContexts, BOOLEAN, {"", "i"}, "none",
           {Plain}, {FALSE}, {FALSE}, {FALSE}, {<<>>, <<"t1">>}, {FALSE}, ParentScopes, Paths)

\* write-back in a keyed block
KeyedWriteInputs ==
    Inputs(BOOLEAN, {FALSE}, {e \in Collections : e.type # "CallExpression"},
           ItemContexts, BOOLEAN, {"", "i"}, "identifier",
           {Plain}, {FALSE}, {FALSE}, {FALSE}, {<<>>, <<"t1">>}, {FALSE}, ParentScopes, {<<>>})

\* destructuring
PatternInputs ==
    Inputs(BOOLEAN, BOOLEAN, NamedCollections,
           Patterns, {FALSE}, {"", "i"}, "none",
           {Plain}, {FALSE}, {FALSE}, BOOLEAN, {<<>>}, {FALSE},
           {{Binding("i", "template", FALSE, 0)}}, {<<>>})

\* the call: fallback, await, dev
CallInputs ==
    Inputs(BOOLEAN, BOOLEAN, {e \in NamedCollections : e.object = "items"},
           {NoContext, IdentifierContext("item")}, {FALSE}, {"", "i"}, "all",
           {Plain}, BOOLEAN, {FALSE}, BOOLEAN, {<<>>}, BOOLEAN, {{}}, {<<>>})

EachBlocks ==
    FlagInputs \cup BodyInputs \cup WriteInputs \cup KeyedWriteInputs
    \cup PatternInputs \cup CallInputs

NoOut == [op |-> "none", name |-> "", expression |-> Undefined]

NoCall == [callee |-> "", rebound |-> FALSE, arguments |-> 0, should_proxy |-> FALSE,
           ignored |-> FALSE, dev |-> FALSE, has_unknown |-> FALSE]

Pending == [kind |-> "pending", value |-> Undefined]

InitLowering ==
    /\ flags = {}
    /\ store_to_invalidate = ""
    /\ collection_id = ""
    /\ uses_index = FALSE
    /\ key_uses_index = FALSE
    /\ sequence = <<>>
    /\ declarations = <<>>
    /\ child_transform = << >>
    /\ key_transform = << >>
    /\ visited = NotVisited
    /\ out = NoOut
    /\ key_function = Undefined
    /\ render_args = <<>>
    /\ args = <<>>
    /\ init = <<>>

Init ==
    /\ \E input \in EachBlocks : node = input.node /\ context = input.context
    /\ pc = "start"
    /\ InitLowering
    /\ call = NoCall
    /\ result = Pending

Next ==
    \/ EachBlockBegin
    \/ ReadIndex
    \/ ReadItem
    \/ AssignItem
    \/ MutateItem
    \/ ReadLeaf
    \/ AssignLeaf
    \/ MutateLeaf
    \/ EachBlockEnd

Spec == Init /\ [][Next]_vars

(***************************************************************************)
(* CallExpression.                                                         *)
(***************************************************************************)
Runes ==
    {"$host", "$effect.tracking", "$state", "$state.raw", "$derived", "$derived.by",
     "$state.snapshot", "$effect.root", "$effect.pending", "$inspect", "$inspect().with",
     "$effect", "$props"}

Callees == Runes \cup {"foo", "console.log", "console.table"}

ConsoleMethods ==
    {"console.debug", "console.dir", "console.error", "console.group",
     "console.groupCollapsed", "console.info", "console.log", "console.trace", "console.warn"}

\* get_rune(node, scope): the rune the callee names, unless the name is bound in scope
get_rune(c) == IF c.callee \in Runes /\ ~c.rebound THEN c.callee ELSE ""

ArgNames == <<"arg1", "arg2", "arg3", "arg4">>

\* context.visit(node.arguments[k - 1])
Visit(c, k) == IF k <= c.arguments THEN Expr("visited", ArgNames[k], <<>>, <<>>) ELSE Undefined

VisitAll(c) == [k \in 1..c.arguments |-> Visit(c, k)]

Return(e) == [kind |-> "return", value |-> e]

\* mutant: the raw form is proxied too
StateAlwaysProxy(c, rune) ==
    LET value == IF c.arguments > 0
                 THEN IF c.should_proxy THEN call_("$.proxy", <<Visit(c, 1)>>) ELSE Visit(c, 1)
                 ELSE Undefined
    IN  call_("$.state", <<value>>)

\* lines 24-43
State(c, rune) ==
    LET value == IF c.arguments > 0
                 THEN IF rune = "$state" /\ c.should_proxy
                      THEN call_("$.proxy", <<Visit(c, 1)>>)
                      ELSE Visit(c, 1)
                 ELSE Undefined
    IN  call_("$.state", <<value>>)

\* lines 45-52
Derived(c, rune) ==
    call_("$.derived", <<IF rune = "$derived" THEN thunk(Visit(c, 1)) ELSE Visit(c, 1)>>)

\* lines 54-59
Snapshot(c) == call_("$.snapshot", <<Visit(c, 1), IF c.ignored THEN true ELSE Undefined>>)

\* lines 61-65
EffectRoot(c) == call_("$.effect_root", VisitAll(c))

\* lines 75-88
IsConsoleLog(c) ==
    /\ c.dev
    /\ c.callee \in ConsoleMethods
    /\ ~c.rebound
    /\ c.has_unknown

\* lines 89-98
ConsoleLog(c) ==
    call_(c.callee, <<spread(call_("$.log_if_contains_state", <<literal(c.callee)>> \o VisitAll(c)))>>)

Lower(c) ==
    LET rune == get_rune(c)
    IN  CASE rune = "$host" -> Return(id("$$props.$$host"))
          [] rune = "$effect.tracking" -> Return(call_("$.effect_tracking", <<>>))
          [] rune \in {"$state", "$state.raw"} -> Return(State(c, rune))
          [] rune \in {"$derived", "$derived.by"} -> Return(Derived(c, rune))
          [] rune = "$state.snapshot" -> Return(Snapshot(c))
          [] rune = "$effect.root" -> Return(EffectRoot(c))
          [] rune = "$effect.pending" -> Return(call_("$.pending", <<>>))
          [] rune \in {"$inspect", "$inspect().with"} ->
                Return(Expr("transform_inspect_rune", rune, VisitAll(c), <<>>))
          [] OTHER -> IF IsConsoleLog(c)
                      THEN Return(ConsoleLog(c))
                      ELSE [kind |-> "next", value |-> Undefined]

CallExpression ==
    /\ result = Pending
    /\ call # NoCall
    /\ result' = Lower(call)
    /\ UNCHANGED <<each_vars, call>>

\* the argument counts each callee is called with
Arities(callee) ==
    CASE callee \in {"$host", "$effect.tracking", "$effect.pending"} -> {0}
      [] callee \in {"$derived", "$derived.by", "$state.snapshot"} -> 1..MaxArgs
      [] OTHER -> 0..MaxArgs

\* has_unknown: some argument is a spread or evaluates to an unknown value
Calls ==
    UNION {{[callee |-> f, rebound |-> rb, arguments |-> n, should_proxy |-> sp,
             ignored |-> ig, dev |-> d, has_unknown |-> hu /\ n > 0] :
              rb \in BOOLEAN, n \in Arities(f), sp \in BOOLEAN,
              ig \in BOOLEAN, d \in BOOLEAN, hu \in BOOLEAN}
           : f \in Callees}

IdleNode ==
    MkNode(CHOOSE e \in Collections : e.type = "ArrayExpression", NoContext, "", NoKey, FALSE,
           <<>>, FALSE, FALSE, FALSE, <<>>, FALSE)

IdleContext == MkContext(TRUE, FALSE, NoContext, "", FALSE, {}, <<>>)

InitCall ==
    /\ node = IdleNode
    /\ context = IdleContext
    /\ pc = "idle"
    /\ InitLowering
    /\ call \in Calls
    /\ result = Pending

NextCall == CallExpression

SpecCall == InitCall /\ [][NextCall]_vars

(***************************************************************************)
(* Properties.                                                             *)
(***************************************************************************)
Lowered == pc \in {"body", "done"}

Has(bit) == bit \in flags

PositionsOf(seq, callee) ==
    {i \in DOMAIN seq : seq[i].type = "CallExpression" /\ seq[i].name = callee}

StorePositions(e) == PositionsOf(e.args, "$.invalidate_store")

SignalPositions(e) == PositionsOf(e.args, "$.invalidate_inner_signals")

\* a write to the loop variable of a plain identifier pattern was lowered
WroteItem == node.context.type = "Identifier" /\ out.op \in {"assign", "mutate"}

\* the first element of a lowered assignment is the indexed write into the collection
IndexedWriteFirst ==
    out.op = "assign" =>
        /\ out.expression.type = "SequenceExpression"
        /\ out.expression.args[1].type = "AssignmentExpression"
        /\ out.expression.args[1].args[1].type = "MemberExpression"
        /\ out.expression.args[1].args[2] = Value

\* the invalidation calls follow the first element, each at most once, the store
\* call present iff a store was recorded
InvalidationsFollow ==
    /\ 1 \notin StorePositions(out.expression) \cup SignalPositions(out.expression)
    /\ Cardinality(StorePositions(out.expression)) = (IF store_to_invalidate # "" THEN 1 ELSE 0)
    /\ Cardinality(SignalPositions(out.expression)) <= 1
    /\ Len(out.expression.args)
         = 1 + Cardinality(StorePositions(out.expression) \cup SignalPositions(out.expression))

\* C1 as stated: after an assignment to (or a mutation of) the loop variable of a
\* plain identifier pattern, the indexed write comes first and the store
\* invalidation call precedes the transitive-signal invalidation call.
C1_StoreBeforeSignals ==
    WroteItem =>
        /\ IndexedWriteFirst
        /\ InvalidationsFollow
        /\ \A i \in StorePositions(out.expression), j \in SignalPositions(out.expression) : i < j

\* C1 amended: the indexed write comes first, then the transitive-signal
\* invalidation call (when one is emitted), then the store invalidation call (when
\* a store was recorded); the same order follows a mutation.
C1_SignalsBeforeStore ==
    WroteItem =>
        /\ IndexedWriteFirst
        /\ InvalidationsFollow
        /\ \A i \in StorePositions(out.expression), j \in SignalPositions(out.expression) : j < i

C1_Witness ==
    /\ WroteItem
    /\ out.op = "assign"
    /\ StorePositions(out.expression) # {}
    /\ SignalPositions(out.expression) # {}

IsElement(child) == child.type \in {"RegularElement", "SvelteElement"}

\* the body has exactly one structural child, an element carrying animate:
SoleChildAnimates(nodes) ==
    /\ Len(Structural(nodes)) = 1
    /\ IsElement(Structural(nodes)[1])
    /\ "AnimateDirective" \in Structural(nodes)[1].attributes

KeyIsItemItself ==
    /\ node.context.type = "Identifier"
    /\ node.key.type = "Identifier"
    /\ node.key.name = node.context.name

NoStoreDependency ==
    \A bnd \in node.metadata.expression.dependencies : bnd.kind # "store_sub"

HasOuterDependency ==
    \E bnd \in node.metadata.expression.dependencies :
        bnd.function_depth < context.function_depth

\* the constructs C3 is about: runes mode, plain collection, identifier item
RunesPlain == Lowered /\ context.runes /\ NoStoreDependency /\ node.context.type = "Identifier"

\* C3 as stated: in runes mode with no store dependency, key = item gives
\* item-is-reactive clear and item-is-immutable set, and any other key in its
\* place gives item-is-reactive set.
C3_KeySwitchSetsReactive ==
    RunesPlain =>
        /\ KeyIsItemItself => (~Has("EACH_ITEM_REACTIVE") /\ Has("EACH_ITEM_IMMUTABLE"))
        /\ (node.key # NoKey /\ ~KeyIsItemItself) => Has("EACH_ITEM_REACTIVE")

\* C3 amended: ... and any other key in its place gives item-is-reactive set
\* exactly when the collection expression has a dependency declared at a function
\* depth shallower than the construct's scope; without one the bit stays clear.
C3_KeySwitchSetsReactiveIfOuter ==
    RunesPlain =>
        /\ KeyIsItemItself => (~Has("EACH_ITEM_REACTIVE") /\ Has("EACH_ITEM_IMMUTABLE"))
        /\ (node.key # NoKey /\ ~KeyIsItemItself) =>
              (Has("EACH_ITEM_REACTIVE") <=> HasOuterDependency)

C3_Witness ==
    /\ RunesPlain
    /\ node.key # NoKey
    /\ ~KeyIsItemItself
    /\ Has("EACH_ITEM_REACTIVE")
    /\ Has("EACH_ITEM_IMMUTABLE")

\* the name is declared in some scope above the construct's own scope
DeclaredAbove(name) ==
    \E level \in 2..Len(context.scopes) : \E bnd \in context.scopes[level] : bnd.name = name

Shadows == \E name \in Declared(context.scopes[1]) : DeclaredAbove(name)

\* a parameter of the renderer that is neither the anchor, the item nor the index
CaptureParameter ==
    \E i \in DOMAIN render_args :
        render_args[i].name \notin {"$$anchor", Item(node).name, Index(node).name}

\* C4: the capture identifier is allocated iff a name declared in the construct's
\* own scope resolves in the parent scope chain, and the renderer's parameter list
\* contains a capture identifier iff one was allocated.
C4_ShadowCapture ==
    /\ Lowered => (collection_id # "" <=> Shadows)
    /\ pc = "done" => (CaptureParameter <=> collection_id # "")

C4_Witness ==
    /\ pc = "done"
    /\ collection_id # ""
    /\ context.scopes[2] = {}
    /\ CaptureParameter

IsDerivedCall(e) ==
    e.type = "CallExpression" /\ e.name \in {"$.derived", "$.derived_safe_equal"}

Destructured == Lowered /\ node.context.type = "ObjectPattern"

DeclarationsOf(name) == {i \in DOMAIN declarations : declarations[i].name = name}

\* C5 as stated: the declarations of a destructuring pattern are exactly one
\* derived call per leaf binding plus one extra derived declaration per
\* default-value expression of the pattern.
C5_AllDerived ==
    Destructured =>
        /\ \A i \in DOMAIN node.context.paths :
              /\ Cardinality(DeclarationsOf(node.context.paths[i].name)) = 1
              /\ \A j \in DeclarationsOf(node.context.paths[i].name) :
                    IsDerivedCall(declarations[j].args[1])
        /\ \A i \in DOMAIN declarations : IsDerivedCall(declarations[i].args[1])
        /\ Len(declarations)
             = Len(node.context.paths)
               + Cardinality({i \in DOMAIN node.context.paths :
                                node.context.paths[i].has_default_value})

\* C5 amended: one $.derived declaration per intermediate of the decomposition,
\* one declaration per leaf binding, which is a derived call only when the leaf
\* has a default value and a plain thunk otherwise; in dev builds one read-back
\* statement per leaf; and, after the body, one alias of the index when the block
\* has an index and contains a group binding.
C5_DerivedOnlyWithDefault ==
    Destructured =>
        /\ Cardinality({i \in DOMAIN declarations : declarations[i].type = "var"})
             = node.context.inserts
        /\ \A i \in DOMAIN declarations :
              declarations[i].type = "var" =>
                  (declarations[i].args[1].name = "$.derived" /\ IsDerivedCall(declarations[i].args[1]))
        /\ \A i \in DOMAIN node.context.paths :
              /\ Cardinality(DeclarationsOf(node.context.paths[i].name)) = 1
              /\ \A j \in DeclarationsOf(node.context.paths[i].name) :
                    /\ declarations[j].type = "let"
                    /\ IF node.context.paths[i].has_default_value
                       THEN declarations[j].args[1].type = "CallExpression"
                            /\ declarations[j].args[1].name = "$.derived_safe_equal"
                       ELSE declarations[j].args[1].type = "ArrowFunctionExpression"
        /\ Cardinality({i \in DOMAIN declarations : declarations[i].type = "ExpressionStatement"})
             = (IF context.dev THEN Len(node.context.paths) ELSE 0)
        /\ Len(declarations)
             = node.context.inserts
               + (IF context.dev THEN 2 * Len(node.context.paths) ELSE Len(node.context.paths))
               + (IF pc = "done" /\ node.index # "" /\ node.metadata.contains_group_binding
                  THEN 1 ELSE 0)

C5_Witness ==
    /\ Destructured
    /\ pc = "done"
    /\ node.context.inserts > 0
    /\ \E i \in DOMAIN node.context.paths : node.context.paths[i].has_default_value
    /\ \E i \in DOMAIN node.context.paths : ~node.context.paths[i].has_default_value

KeyReadsIndex == node.index # "" /\ node.index \in node.key.reads

\* C6: the key function of a keyed block takes the item pattern, and the index
\* after it iff the key expression reads the index; reads of the index in the
\* body never add the parameter.
C6_KeyParameters ==
    (pc = "done" /\ node.metadata.keyed) =>
        /\ key_function.type = "ArrowFunctionExpression"
        /\ key_function.args[1] = Pattern(node)
        /\ Len(key_function.args) = (IF KeyReadsIndex THEN 2 ELSE 1)
        /\ KeyReadsIndex => key_function.args[2] = Index(node)
        /\ key_uses_index <=> KeyReadsIndex

C6_Witness ==
    /\ pc = "done"
    /\ node.metadata.keyed
    /\ out.op = "read"
    /\ out.name = node.index
    /\ uses_index
    /\ ~KeyReadsIndex
    /\ Len(key_function.args) = 1

TableRunes ==
    {"$host", "$effect.tracking", "$effect.pending", "$state", "$state.raw", "$derived",
     "$derived.by", "$state.snapshot", "$effect.root", "$inspect", "$inspect().with"}

\* the call resolves to a primitive of the dispatch table
Resolves == call.callee \in TableRunes /\ ~call.rebound

RuntimeShapes ==
    {"$$props.$$host", "$.effect_tracking", "$.pending", "$.state", "$.derived",
     "$.snapshot", "$.effect_root", "transform_inspect_rune"}

IsVisited(e, k) == e.type = "visited" /\ e.name = ArgNames[k]

IsCall(e, callee, n) == e.type = "CallExpression" /\ e.name = callee /\ Len(e.args) = n

StateShape(e) ==
    /\ e.type = "CallExpression" /\ e.name = "$.state"
    /\ Len(e.args) = (IF call.arguments = 0 THEN 0 ELSE 1)
    /\ call.arguments > 0 =>
          IF call.callee = "$state" /\ call.should_proxy
          THEN IsCall(e.args[1], "$.proxy", 1) /\ IsVisited(e.args[1].args[1], 1)
          ELSE IsVisited(e.args[1], 1)

DerivedShape(e) ==
    /\ IsCall(e, "$.derived", 1)
    /\ IF call.callee = "$derived"
       THEN /\ e.args[1].type = "ArrowFunctionExpression"
            /\ e.args[1].args = <<>>
            /\ IsVisited(e.args[1].body[1], 1)
       ELSE IsVisited(e.args[1], 1)

SnapshotShape(e) ==
    /\ e.type = "CallExpression" /\ e.name = "$.snapshot"
    /\ IsVisited(e.args[1], 1)
    /\ Len(e.args) = (IF call.ignored THEN 2 ELSE 1)
    /\ call.ignored => e.args[2] = true

EffectRootShape(e) ==
    /\ IsCall(e, "$.effect_root", call.arguments)
    /\ \A k \in 1..call.arguments : IsVisited(e.args[k], k)

\* C7: a call that resolves to a primitive returns the shape of the dispatch
\* table and never falls through to the console rewrite or to context.next();
\* a call that resolves to none returns none of these shapes.
C7_Dispatch ==
    result # Pending =>
        IF Resolves
        THEN /\ result.kind = "return"
             /\ call.callee = "$host" =>
                    (result.value.type = "Identifier" /\ result.value.name = "$$props.$$host")
             /\ call.callee = "$effect.tracking" => IsCall(result.value, "$.effect_tracking", 0)
             /\ call.callee = "$effect.pending" => IsCall(result.value, "$.pending", 0)
             /\ call.callee \in {"$state", "$state.raw"} => StateShape(result.value)
             /\ call.callee \in {"$derived", "$derived.by"} => DerivedShape(result.value)
             /\ call.callee = "$state.snapshot" => SnapshotShape(result.value)
             /\ call.callee = "$effect.root" => EffectRootShape(result.value)
             /\ call.callee \in {"$inspect", "$inspect().with"} =>
                    result.value.type = "transform_inspect_rune"
        ELSE /\ result.value.name \notin RuntimeShapes
             /\ result.value.type # "transform_inspect_rune"

C7_Witness ==
    /\ result.kind = "return"
    /\ call.callee = "$state"
    /\ ~call.rebound
    /\ call.arguments > 0
    /\ call.should_proxy
    /\ result.value.args[1].name = "$.proxy"

\* the identifiers passed to $.invalidate_inner_signals
InvalidatedNames ==
    UNION {{sequence[i].args[1].body[1].args[k].name : k \in DOMAIN sequence[i].args[1].body[1].args}
           : i \in PositionsOf(sequence, "$.invalidate_inner_signals")}

CaptureNames == IF collection_id # "" THEN {collection_id} ELSE {}

OwnTransitiveNames == Range(node.metadata.transitive_deps)

EnclosingTransitiveNames ==
    UNION {Range(context.path[i].transitive_deps) :
             i \in {j \in DOMAIN context.path : context.path[j].type = "EachBlock"}}

NoSignalsInRunes ==
    (Lowered /\ context.runes) => PositionsOf(sequence, "$.invalidate_inner_signals") = {}

\* C8 as stated: in legacy mode the invalidated identifiers contain the capture
\* (when allocated), the construct's own transitive dependencies and those of
\* every enclosing each block; in runes mode there is no such call.
C8_AllTransitiveDeps ==
    /\ (Lowered /\ ~context.runes) =>
          (CaptureNames \cup OwnTransitiveNames \cup EnclosingTransitiveNames) \subseteq InvalidatedNames
    /\ NoSignalsInRunes

\* C8 amended: in legacy mode the invalidated identifiers are the capture when one
\* was allocated and otherwise the construct's own transitive dependencies,
\* together with those of every enclosing each block (the own ones are left out
\* when a capture was allocated); in runes mode there is no such call.
C8_CaptureOrOwnDeps ==
    /\ (Lowered /\ ~context.runes) =>
          InvalidatedNames
            = (IF collection_id # "" THEN CaptureNames ELSE OwnTransitiveNames)
              \cup EnclosingTransitiveNames
    /\ NoSignalsInRunes

C8_Witness ==
    /\ Lowered
    /\ ~context.runes
    /\ collection_id # ""
    /\ OwnTransitiveNames # {}
    /\ EnclosingTransitiveNames # {}
    /\ ~(OwnTransitiveNames \subseteq EnclosingTransitiveNames)

FallbackLast ==
    pc = "done" =>
        IF node.fallback
        THEN /\ Len(args) = 6
             /\ args[6].type = "ArrowFunctionExpression"
             /\ args[6].body[1].name = "fallback"
        ELSE Len(args) = 5

\* C9 as stated: a fallback is lowered under the scope the collection expression
\* is lowered under (the parent scope), and its renderer is the last argument;
\* without a fallback there is no sixth argument.
C9_FallbackParentScope ==
    /\ FallbackLast
    /\ (pc = "done" /\ node.fallback) => visited.fallback = visited.expression

\* C9 amended: a fallback is handed to the visitor with the current state, whose
\* scope is the construct's own scope (the one the body is lowered under, not
\* the parent scope of the collection expression), and its renderer is the last
\* argument; without a fallback there is no sixth argument.
C9_FallbackOwnScope ==
    /\ FallbackLast
    /\ (pc = "done" /\ node.fallback) =>
          (visited.fallback = visited.body /\ visited.fallback # visited.expression)
    /\ (pc = "done" /\ ~node.fallback) => visited.fallback = 0

C9_Witness ==
    /\ pc = "done"
    /\ node.fallback
    /\ Len(args) = 6
    /\ visited.fallback # 0

ItemWasRead ==
    /\ node.context.type = "Identifier"
    /\ out.op = "read"
    /\ out.name = node.context.name

ItemReference ==
    IF Has("EACH_ITEM_REACTIVE")
    THEN IsCall(out.expression, "$.get", 1) /\ out.expression.args[1] = id(node.context.name)
    ELSE out.expression = id(node.context.name)

ItemReassigned == \E bnd \in context.scopes[1] : bnd.name = node.context.name /\ bnd.reassigned

\* C10 as stated: a read of the loop variable of a plain identifier pattern is the
\* identifier, raw when item-is-reactive is clear and in its reactive-read form
\* when it is set, for every binding, reassigned or not.
C10_ReadIsItem == ItemWasRead => ItemReference

\* C10 amended: ... for every binding that is not reassigned; the read of a
\* reassigned binding is collection[index], through the capture when one was
\* allocated, with the index in its reactive-read form iff index-is-reactive.
C10_ReadIsItemUnlessReassigned ==
    ItemWasRead =>
        IF ItemReassigned
        THEN /\ out.expression.type = "MemberExpression"
             /\ out.expression.args[1]
                  = (IF collection_id # "" THEN call_(collection_id, <<>>) ELSE Collection(node))
             /\ IF Has("EACH_INDEX_REACTIVE")
                THEN IsCall(out.expression.args[2], "$.get", 1)
                ELSE out.expression.args[2].type = "Identifier"
        ELSE ItemReference

C10_Witness ==
    /\ ItemWasRead
    /\ ~ItemReassigned
    /\ Has("EACH_ITEM_REACTIVE")

====
